---- MODULE Spec2Model ----
(***************************************************************************)
(* Model of qualite (src/src/qualite.ts, with execP of utils.ts):          *)
(* file selection, pattern filtering, the bounded parallel executor and    *)
(* the reporter.                                                           *)
(*                                                                         *)
(* A string is a sequence of one-character strings.  A file name is a      *)
(* string.  A RegExp is modelled by a literal text with an optional        *)
(* anchor: /^t/, /t$/ or /t/.                                              *)
(***************************************************************************)
EXTENDS Integers, Sequences, FiniteSets, TLC

\* Largest maxParallel a run is started with.
MaxParallelBound == 3

\* Largest number of files a directory listing returns.
MaxFiles == 3

\* Longest file name given to the pattern filter on its own.
MaxNameLen == 2

Range(s) == {s[i] : i \in 1..Len(s)}

Min(a, b) == IF a < b THEN a ELSE b

\* The characters used, in ascending order of their UTF-16 code unit.
CodeUnitOrder == <<"\n", "\r", ".", "/", "a", "b", "c", "j", "p", "t">>

Ord(c) == CHOOSE i \in 1..Len(CodeUnitOrder) : CodeUnitOrder[i] = c

\* a < b on JavaScript strings: code unit by code unit, a proper prefix first.
RECURSIVE LexLess(_, _)
LexLess(a, b) ==
  IF b = <<>> THEN FALSE
  ELSE IF a = <<>> THEN TRUE
  ELSE IF Head(a) # Head(b) THEN Ord(Head(a)) < Ord(Head(b))
  ELSE LexLess(Tail(a), Tail(b))

\* immutable's defaultComparator: a > b ? 1 : a < b ? -1 : 0
defaultComparator(a, b) == IF LexLess(b, a) THEN 1 ELSE IF LexLess(a, b) THEN -1 ELSE 0

\* The members of S from the greatest to the least.
RECURSIVE sortReversed(_)
sortReversed(S) ==
  IF S = {} THEN <<>>
  ELSE LET m == CHOOSE x \in S : \A y \in S : defaultComparator(x, y) >= 0
       IN <<m>> \o sortReversed(S \ {m})

\* Set.sort(): the members of S as a sequence ordered by the comparator.
RECURSIVE sort(_)
sort(S) ==
  IF S = {} THEN <<>>
  ELSE LET m == CHOOSE x \in S : \A y \in S : defaultComparator(x, y) <= 0
       IN <<m>> \o sort(S \ {m})

WhiteSpace == {"\n", "\r"}

\* String.prototype.trim
RECURSIVE trim(_)
trim(s) ==
  IF s = <<>> THEN s
  ELSE IF Head(s) \in WhiteSpace THEN trim(Tail(s))
  ELSE IF s[Len(s)] \in WhiteSpace THEN trim(SubSeq(s, 1, Len(s) - 1))
  ELSE s

\* Length of the match of /\r?\n/ at position i of s, 0 when there is none.
SeparatorAt(s, i) ==
  IF s[i] = "\n" THEN 1
  ELSE IF s[i] = "\r" /\ i < Len(s) /\ s[i + 1] = "\n" THEN 2
  ELSE 0

\* a.split(/\r?\n/)
RECURSIVE split(_)
split(s) ==
  LET hits == {i \in 1..Len(s) : SeparatorAt(s, i) > 0}
  IN IF hits = {} THEN <<s>>
     ELSE LET i == CHOOSE h \in hits : \A g \in hits : h <= g
          IN <<SubSeq(s, 1, i - 1)>> \o split(SubSeq(s, i + SeparatorAt(s, i), Len(s)))

linesFromStdout(a) == Range(split(a))

(***************************************************************************)
(* Patterns and the pattern filter                                         *)
(***************************************************************************)

IsPrefix(t, f) == Len(t) <= Len(f) /\ SubSeq(f, 1, Len(t)) = t

IsSuffix(t, f) == Len(t) <= Len(f) /\ SubSeq(f, Len(f) - Len(t) + 1, Len(f)) = t

IsInfix(t, f) == \E i \in 1..(Len(f) + 1) : i + Len(t) - 1 <= Len(f) /\ SubSeq(f, i, i + Len(t) - 1) = t

\* RegExp.prototype.test for /^text/, /text$/ and /text/ (no g or y flag).
Test(p, f) ==
  CASE p.anchor = "start" -> IsPrefix(p.text, f)
    [] p.anchor = "end" -> IsSuffix(p.text, f)
    [] OTHER -> IsInfix(p.text, f)

\* files => wl.size > 0 ? files.filter(f => wl.some(wlp => wlp.test(f))) : files
whitelisted(S, w) ==
  IF Cardinality(w) > 0 THEN {f \in S : \E wlp \in w : Test(wlp, f)} ELSE S

\* bl.some(blp => !blp.test(f)) instead of bl.every(...)
blacklistedSome(S, b) ==
  IF Cardinality(b) > 0 THEN {f \in S : \E blp \in b : ~Test(blp, f)} ELSE S

\* Only the first of the files a blacklist pattern matches is removed.
blacklistedFirst(S, b) ==
  LET M == {f \in S : \E blp \in b : Test(blp, f)}
  IN IF M = {} THEN S ELSE S \ {Head(sort(M))}

\* files => bl.size > 0 ? files.filter(f => bl.every(blp => !blp.test(f))) : files
blacklisted(S, b) ==
  IF Cardinality(b) > 0 THEN {f \in S : \A blp \in b : ~Test(blp, f)} ELSE S

\* The three map() stages of filesToRunOn applied to the selected set S.
filesToRunOn(S, w, b) == sort(blacklisted(whitelisted(S, w), b))

(***************************************************************************)
(* Processes                                                               *)
(***************************************************************************)

\* The callback of exec() in execP: ko(...) when error is set, ok(...)
\* otherwise, both with the trimmed stdout.  o is what the child process
\* did: its exit code and its raw output.
execP(o) ==
  IF o.code # 0
    THEN [error |-> TRUE, code |-> o.code, stdout |-> trim(o.stdout)]
    ELSE [error |-> FALSE, code |-> 0, stdout |-> trim(o.stdout)]

\* execProcess without catchError: a rejected execP is an error notification.
execProcessNoCatch(f, cp) ==
  IF cp.error
    THEN [kind |-> "error", value |-> [filename |-> f, code |-> cp.code, stdout |-> cp.stdout]]
    ELSE [kind |-> "next", value |-> [filename |-> f, code |-> cp.code, stdout |-> cp.stdout]]

\* execP(...).pipe(catchError(a => of(a)), map(a => Object.assign(a, {filename: f})))
\* as the notification the inner observable delivers.
execProcess(f, cp) ==
  [kind |-> "next", value |-> [filename |-> f, code |-> cp.code, stdout |-> cp.stdout]]

\* mergeMap(project) without its concurrency argument.
mergeMapUnbounded(f, m) == [active |-> f, buffer |-> <<>>]

\* The first m items subscribed and the others dropped.
mergeMapTake(f, m) == [active |-> SubSeq(f, 1, Min(m, Len(f))), buffer |-> <<>>]

\* The first m items subscribed and every item pushed to the buffer.
mergeMapKeepAll(f, m) == [active |-> SubSeq(f, 1, Min(m, Len(f))), buffer |-> f]

\* One item subscribed at a time.
mergeMapOne(f, m) == [active |-> SubSeq(f, 1, Min(1, Len(f))), buffer |-> SubSeq(f, Min(1, Len(f)) + 1, Len(f))]

\* The items taken from the last to the first.
mergeMapReversed(f, m) ==
  LET r == [i \in 1..Len(f) |-> f[Len(f) + 1 - i]]
  IN [active |-> SubSeq(r, 1, Min(m, Len(r))), buffer |-> SubSeq(r, Min(m, Len(r)) + 1, Len(r))]

\* mergeMap(project, m) fed by from(array): the first m items are subscribed
\* (this.active < this.concurrent), the others are pushed to the buffer.
mergeMapSubscribe(f, m) ==
  [active |-> SubSeq(f, 1, Min(m, Len(f))), buffer |-> SubSeq(f, Min(m, Len(f)) + 1, Len(f))]

\* acc.push(e) with its value dropped: the list is immutable.
accumulateDiscarded(acc, e) == acc

\* The result put at the front of the list.
accumulateFirst(acc, e) == <<e>> \o acc

\* reduce((acc, e) => { ...; return acc.push(e); }, List())
accumulate(acc, e) == Append(acc, e)

\* a.every(b => b.code !== 0) ? 1 : 0
exitStatusEvery(a) == IF \A i \in 1..Len(a) : a[i].code # 0 THEN 1 ELSE 0

\* a.some(b => b.code !== 0) ? 1 : 0
exitStatus(a) == IF \E i \in 1..Len(a) : a[i].code # 0 THEN 1 ELSE 0

\* The test of files.size left out.
noFileNever(f) == FALSE

\* files.size === 0
noFile(f) == Len(f) = 0

(***************************************************************************)
(* Messages                                                                *)
(***************************************************************************)

Message(kind, success, filename, exitCode, stdOut, count, total, lines) ==
  [kind |-> kind, success |-> success, filename |-> filename, exitCode |-> exitCode,
   stdOut |-> stdOut, count |-> count, total |-> total, lines |-> lines]

\* The output shown only when everything is logged, also for a failure.
messageForOneFileVerboseOnly(f, s, p, v) ==
  LET success == p = 0
      stdOutTrimmed == trim(s)
      shouldLog == v = "LogEverything"
      stdOut == IF shouldLog /\ stdOutTrimmed # <<>> THEN stdOutTrimmed ELSE <<>>
      exitCode == IF success THEN <<>> ELSE <<p>>
  IN Message("file", success, f, exitCode, stdOut, 0, 0, <<>>)

messageForOneFile(f, s, p, v) ==
  LET success == p = 0
      stdOutTrimmed == trim(s)
      shouldLog == ~success \/ v = "LogEverything"
      stdOut == IF shouldLog /\ stdOutTrimmed # <<>> THEN stdOutTrimmed ELSE <<>>
      exitCode == IF success THEN <<>> ELSE <<p>>
  IN Message("file", success, f, exitCode, stdOut, 0, 0, <<>>)

RECURSIVE failureLines(_, _)
failureLines(failures, v) ==
  IF failures = <<>> THEN <<>>
  ELSE <<messageForOneFile(Head(failures).filename, Head(failures).stdout, Head(failures).code, v)>>
       \o failureLines(Tail(failures), v)

\* The detail of every file, not of the failures only.
messageForSummaryEveryFile(p, v) ==
  LET failures == SelectSeq(p, LAMBDA a : a.code # 0)
  IN IF Len(failures) = 0
       THEN Message("summary", TRUE, <<>>, <<>>, <<>>, Len(p), Len(p), <<>>)
       ELSE Message("summary", FALSE, <<>>, <<>>, <<>>, Len(failures), Len(p), failureLines(p, v))

messageForSummary(p, v) ==
  LET failures == SelectSeq(p, LAMBDA a : a.code # 0)
  IN IF Len(failures) = 0
       THEN Message("summary", TRUE, <<>>, <<>>, <<>>, Len(p), Len(p), <<>>)
       ELSE Message("summary", FALSE, <<>>, <<>>, <<>>, Len(failures), Len(p), failureLines(failures, v))

messageForNoFile == Message("nofile", TRUE, <<>>, <<>>, <<>>, 0, 0, <<>>)

messageForHeader(f) == Message("header", TRUE, <<>>, <<>>, <<>>, Len(f), Len(f), <<>>)

\* A logger that is enabled whatever the verbosity.
createLoggerAlways(v) == TRUE

\* pino({enabled: v !== Verbosity.Silent})
createLogger(v) == v # "Silent"

\* l.info(m) on the output l written so far
info(l, v, m) == IF createLogger(v) THEN Append(l, m) ELSE l

\* A line only for a result that failed, or when everything is logged.
perFileLineWhenShown(l, v, e) ==
  IF e.code # 0 \/ v = "LogEverything"
    THEN info(l, v, messageForOneFile(e.filename, e.stdout, e.code, v))
    ELSE l

\* l.info(messageForOneFile(e.filename, e.stdout, e.code, v)) in reduce
perFileLine(l, v, e) == info(l, v, messageForOneFile(e.filename, e.stdout, e.code, v))

(***************************************************************************)
(* Inputs                                                                  *)
(***************************************************************************)

\* enum Files
Files == {"AllInPwd", "IndexedInGit", "ModifiedSinceOriginMasterInGit", "StagedInGit"}

\* enum Verbosity
Verbosity == {"Silent", "LogErrors", "LogEverything"}

\* The files a directory listing may return: a.j, p/b.j, c.t, b.j
DirNames == {<<"a", ".", "j">>, <<"p", "/", "b", ".", "j">>, <<"c", ".", "t">>, <<"b", ".", "j">>}

\* What a git command may print: nothing, one line, two lines, two lines
\* with a CRLF line ending.
GitOutputs ==
  { <<>>,
    <<"a", ".", "j", "\n">>,
    <<"c", ".", "t", "\n">>,
    <<"a", ".", "j", "\n", "c", ".", "t", "\n">>,
    <<"p", "/", "b", ".", "j", "\r", "\n", "a", ".", "j", "\n">> }

\* What the command run on a file may do: exit 0 with output, exit 1 with
\* output, or not be found by the shell (status 127, as every failure to
\* start reports a code other than 0).
ProcessOutcomes ==
  { [code |-> 0, stdout |-> <<"a", "\n">>],
    [code |-> 1, stdout |-> <<"b", "\n">>],
    [code |-> 127, stdout |-> <<>>] }

\* A variable of process.env: unset, or set to a string.
Unset == [set |-> FALSE, value |-> <<>>]
SetTo(s) == [set |-> TRUE, value |-> s]

\* Neither variable is set.
NoEnv == [STASH_PULL_REQUEST_BRANCH_DESTINATION |-> Unset, CHANGE_TARGET |-> Unset]

\* if (process.env.X): X is set and is not the empty string.
Truthy(x) == x.set /\ x.value # <<>>

\* CHANGE_TARGET looked up before STASH_PULL_REQUEST_BRANCH_DESTINATION.
targetBranchChangeFirst(e) ==
  IF Truthy(e.CHANGE_TARGET)
    THEN <<"u", "p", "s", "t", "r", "e", "a", "m", "/">> \o e.CHANGE_TARGET.value
  ELSE IF Truthy(e.STASH_PULL_REQUEST_BRANCH_DESTINATION)
    THEN <<"s", "t", "a", "s", "h", "/">> \o e.STASH_PULL_REQUEST_BRANCH_DESTINATION.value
  ELSE <<"o", "r", "i", "g", "i", "n", "/", "m", "a", "s", "t", "e", "r">>

targetBranch(e) ==
  IF Truthy(e.STASH_PULL_REQUEST_BRANCH_DESTINATION)
    THEN <<"s", "t", "a", "s", "h", "/">> \o e.STASH_PULL_REQUEST_BRANCH_DESTINATION.value
  ELSE IF Truthy(e.CHANGE_TARGET)
    THEN <<"u", "p", "s", "t", "r", "e", "a", "m", "/">> \o e.CHANGE_TARGET.value
  ELSE <<"o", "r", "i", "g", "i", "n", "/", "m", "a", "s", "t", "e", "r">>

\* /\.j$/ and /^p/
RunWhitelists == {{}, {[anchor |-> "end", text |-> <<".", "j">>]}}
RunBlacklists == {{}, {[anchor |-> "start", text |-> <<"p">>]}}

(***************************************************************************)
(* State                                                                   *)
(***************************************************************************)

VARIABLES
  strategy,     \* filesToProcess
  wl,           \* patternWhitelist
  bl,           \* patternBlacklist
  maxParallel,  \* maxParallel
  verbosity,    \* verbosity
  pc,           \* where the run is
  commands,     \* the selection commands started, with their state
  selected,     \* the set _filesToRunOn emitted
  files,        \* the filtered, sorted files
  buffer,       \* mergeMap's buffer: files not yet subscribed
  inflight,     \* files whose subprocess runs
  started,      \* files in the order their subprocess was started
  results,      \* the accumulator of reduce
  log,          \* the messages written by the logger
  exitCalls,    \* the statuses process.exit was called with
  env,          \* process.env, the two variables targetBranch reads
  ended         \* what the subprocesses that ended did, in the order they ended

config == <<strategy, wl, bl, maxParallel, verbosity, env>>
pool == <<buffer, inflight, started, results, ended>>
vars == <<strategy, wl, bl, maxParallel, verbosity, pc, commands, selected, files,
          buffer, inflight, started, results, log, exitCalls, env, ended>>

Init ==
  /\ strategy \in Files \cup {"Unrecognized"}
  /\ wl \in RunWhitelists
  /\ bl \in RunBlacklists
  /\ maxParallel \in 1..MaxParallelBound
  /\ verbosity \in Verbosity
  /\ pc = "start"
  /\ commands = <<>>
  /\ selected = {}
  /\ files = <<>>
  /\ buffer = <<>>
  /\ inflight = {}
  /\ started = <<>>
  /\ results = <<>>
  /\ log = <<>>
  /\ exitCalls = <<>>
  /\ env = NoEnv
  /\ ended = <<>>

(***************************************************************************)
(* Operations                                                              *)
(***************************************************************************)

\* A command that was started; ref is the branch a diff is taken against.
Command(cmd, ref) == [cmd |-> cmd, ref |-> ref, status |-> "running", stdout |-> <<>>]

\* The two commands forkJoin starts.
modifiedSinceOriginMasterInGit(e) ==
  <<Command("git diff target...HEAD", targetBranch(e)), Command("git diff --staged", <<>>)>>

\* The observables of the four strategies, as the commands each starts
\* when subscribed.
_filesToRunOn(f, e) ==
  CASE f = "AllInPwd" -> <<Command("recursive", <<>>)>>
    [] f = "IndexedInGit" -> <<Command("git ls-files", <<>>)>>
    [] f = "ModifiedSinceOriginMasterInGit" -> modifiedSinceOriginMasterInGit(e)
    [] f = "StagedInGit" -> <<Command("git diff --staged", <<>>)>>

\* process.exit called first: the summary is never written.
finishExitFirst(l, a) ==
  /\ log' = l
  /\ exitCalls' = Append(exitCalls, exitStatus(a))
  /\ pc' = "exited"

\* The subscriber of the reduced stream: summary, then process.exit.
finish(l, a) ==
  /\ log' = info(l, verbosity, messageForSummary(a, verbosity))
  /\ exitCalls' = Append(exitCalls, exitStatus(a))
  /\ pc' = "exited"

nothingToRun ==
  /\ log' = info(log, verbosity, messageForNoFile)
  /\ exitCalls' = Append(exitCalls, 0)
  /\ pc' = "exited"
  /\ UNCHANGED pool

\* Header, then the subscription of runInParallel(f, p, m) reduced into a list.
runAll(f) ==
  LET l == info(log, verbosity, messageForHeader(f))
      s == mergeMapSubscribe(f, maxParallel)
  IN /\ buffer' = s.buffer
     /\ inflight' = Range(s.active)
     /\ started' = s.active
     /\ results' = <<>>
     /\ ended' = <<>>
     /\ IF s.active = <<>>
          THEN finish(l, <<>>)
          ELSE /\ log' = l
               /\ pc' = "running"
               /\ UNCHANGED exitCalls

\* The subscriber of filesToRunOn(f, wl, bl) in runProcessForEachFile, given
\* the set S the strategy emitted.
emit(S) ==
  LET f == filesToRunOn(S, wl, bl)
  IN /\ selected' = S
     /\ files' = f
     /\ IF noFile(f) THEN nothingToRun ELSE runAll(f)

\* An error reaches a subscriber that has no error callback: it is thrown
\* out of the event loop and the run is over.
crash ==
  /\ pc' = "crashed"
  /\ UNCHANGED <<selected, files, pool, log, exitCalls>>

\* A strategy that is not recognized taken as the default one.
runProcessForEachFileDefault ==
  /\ pc = "start"
  /\ commands' = _filesToRunOn(IF strategy \in Files THEN strategy ELSE "StagedInGit", env)
  /\ pc' = "selecting"
  /\ UNCHANGED <<selected, files, pool, log, exitCalls>>
  /\ UNCHANGED config

\* qualite(...) is called: the logger is created and the strategy is looked
\* up and subscribed, which starts its commands.  An unknown strategy is not
\* in the Map: get(f) is undefined and calling it throws.
runProcessForEachFile ==
  /\ pc = "start"
  /\ IF strategy \in Files
       THEN /\ commands' = _filesToRunOn(strategy, env)
            /\ pc' = "selecting"
            /\ UNCHANGED <<selected, files, pool, log, exitCalls>>
       ELSE /\ crash
            /\ UNCHANGED commands
  /\ UNCHANGED config

\* The set a strategy emits once all its commands have succeeded.
selection(f, c) ==
  CASE f = "ModifiedSinceOriginMasterInGit" -> linesFromStdout(c[1].stdout \o c[2].stdout)
    [] OTHER -> linesFromStdout(c[1].stdout)

\* Git command i exits with status 0 having printed out.  forkJoin emits
\* when its last command has.
GitDone(i, out) ==
  /\ pc = "selecting"
  /\ strategy # "AllInPwd"
  /\ i \in 1..Len(commands)
  /\ commands[i].status = "running"
  /\ LET cp == execP([code |-> 0, stdout |-> out])
         c == [commands EXCEPT ![i] = [@ EXCEPT !.status = "ok", !.stdout = cp.stdout]]
     IN /\ commands' = c
        /\ IF \A j \in 1..Len(c) : c[j].status = "ok"
             THEN emit(selection(strategy, c))
             ELSE UNCHANGED <<pc, selected, files, pool, log, exitCalls>>
  /\ UNCHANGED config

\* recursive(process.cwd()) resolves with the files S.
ListingDone(S) ==
  /\ pc = "selecting"
  /\ strategy = "AllInPwd"
  /\ commands[1].status = "running"
  /\ commands' = [commands EXCEPT ![1].status = "ok"]
  /\ emit(S)
  /\ UNCHANGED config

\* A failed command taken as one that printed nothing.
SelectionFailedAsEmpty(i) ==
  /\ pc = "selecting"
  /\ i \in 1..Len(commands)
  /\ commands[i].status = "running"
  /\ LET c == [commands EXCEPT ![i].status = "failed"]
     IN /\ commands' = c
        /\ IF \A j \in 1..Len(c) : c[j].status # "running"
             THEN emit(IF strategy = "AllInPwd" THEN {} ELSE selection(strategy, c))
             ELSE UNCHANGED <<pc, selected, files, pool, log, exitCalls>>
  /\ UNCHANGED config

\* Command i fails: execP rejects (the listing promise rejects), the
\* observable of the strategy errors.
SelectionFailed(i) ==
  /\ pc = "selecting"
  /\ i \in 1..Len(commands)
  /\ commands[i].status = "running"
  /\ commands' = [commands EXCEPT ![i].status = "failed"]
  /\ crash
  /\ UNCHANGED config

\* The subprocess of file f ends as o.  Its result goes through reduce
\* (line logged, result pushed), then the inner observable completes:
\* mergeMap subscribes the head of the buffer, or, with nothing left in
\* flight, completes and the summary is logged and the process exits.
ProcessDone(f, o) ==
  /\ pc = "running"
  /\ f \in inflight
  /\ ended' = Append(ended, [filename |-> f, code |-> o.code, stdout |-> o.stdout])
  /\ LET n == execProcess(f, execP(o))
     IN IF n.kind = "error"
          THEN /\ pc' = "crashed"
               /\ inflight' = inflight \ {f}
               /\ UNCHANGED <<buffer, started, results, log, exitCalls>>
          ELSE LET e == n.value
                   l == perFileLine(log, verbosity, e)
                   acc == accumulate(results, e)
               IN /\ results' = acc
                  /\ IF buffer # <<>>
                       THEN /\ inflight' = (inflight \ {f}) \cup {Head(buffer)}
                            /\ started' = Append(started, Head(buffer))
                            /\ buffer' = Tail(buffer)
                            /\ log' = l
                            /\ UNCHANGED <<pc, exitCalls>>
                       ELSE /\ inflight' = inflight \ {f}
                            /\ UNCHANGED <<buffer, started>>
                            /\ IF inflight \ {f} = {}
                                 THEN finish(l, acc)
                                 ELSE /\ log' = l
                                      /\ UNCHANGED <<pc, exitCalls>>
  /\ UNCHANGED <<config, commands, selected, files>>

Next ==
  \/ runProcessForEachFile
  \/ \E i \in 1..2, out \in GitOutputs : GitDone(i, out)
  \/ \E S \in SUBSET DirNames : Cardinality(S) <= MaxFiles /\ ListingDone(S)
  \/ \E i \in 1..2 : SelectionFailed(i)
  \/ \E f \in inflight, o \in ProcessOutcomes : ProcessDone(f, o)

Spec == Init /\ [][Next]_vars

\* A subprocess in flight ends.
Completion == \E f \in inflight, o \in ProcessOutcomes : ProcessDone(f, o)

\* The run when every subprocess that was started ends at some time.
FairSpec == Spec /\ WF_vars(Completion)

(***************************************************************************)
(* The pattern filter on its own                                           *)
(***************************************************************************)

\* Largest number of files given to the pattern filter on its own.
MaxFilterFiles == 2

\* Largest whitelist and blacklist given to the pattern filter on its own.
MaxPatterns == 2

FilterChars == {"j", "p"}

FilterNames == UNION {[1..k -> FilterChars] : k \in 0..MaxNameLen}

\* a.j, p/b.j, c.t
ExampleFiles == {<<"a", ".", "j">>, <<"p", "/", "b", ".", "j">>, <<"c", ".", "t">>}

FilterInputs == {S \in SUBSET FilterNames : Cardinality(S) <= MaxFilterFiles} \cup {ExampleFiles}

\* /^p/, /p$/, /p/, /j$/, /pj/, /\.j$/
FilterPatterns ==
  {[anchor |-> a, text |-> <<"p">>] : a \in {"start", "end", "none"}}
    \cup {[anchor |-> "end", text |-> <<"j">>], [anchor |-> "none", text |-> <<"p", "j">>],
          [anchor |-> "end", text |-> <<".", "j">>]}

FilterPatternSets == {P \in SUBSET FilterPatterns : Cardinality(P) <= MaxPatterns}

FilterInit ==
  /\ strategy = "AllInPwd"
  /\ wl \in FilterPatternSets
  /\ bl \in FilterPatternSets
  /\ maxParallel = 1
  /\ verbosity = "Silent"
  /\ pc = "filter"
  /\ commands = <<>>
  /\ selected \in FilterInputs
  /\ files = <<>>
  /\ buffer = <<>>
  /\ inflight = {}
  /\ started = <<>>
  /\ results = <<>>
  /\ log = <<>>
  /\ exitCalls = <<>>
  /\ env = NoEnv
  /\ ended = <<>>

\* The map() stages of filesToRunOn run on the selected set.
FilterApply ==
  /\ pc = "filter"
  /\ files' = filesToRunOn(selected, wl, bl)
  /\ pc' = "filtered"
  /\ UNCHANGED <<config, commands, selected, pool, log, exitCalls>>

\* The same stages run once more, on the files they gave.
FilterAgain ==
  /\ pc = "filtered"
  /\ files' = filesToRunOn(Range(files), wl, bl)
  /\ pc' = "refiltered"
  /\ UNCHANGED <<config, commands, selected, pool, log, exitCalls>>

FilterNext == FilterApply \/ FilterAgain

FilterSpec == FilterInit /\ [][FilterNext]_vars

(***************************************************************************)
(* The target branch on its own                                            *)
(***************************************************************************)

\* Longest value of an environment variable.
MaxBranchLen == 2

BranchChars == {"m", "/"}

\* An environment variable is unset, empty, or holds a branch name.
EnvValues ==
  {Unset} \cup {SetTo(s) : s \in UNION {[1..k -> BranchChars] : k \in 0..MaxBranchLen}}

BranchInit ==
  /\ strategy = "ModifiedSinceOriginMasterInGit"
  /\ wl = {}
  /\ bl = {}
  /\ maxParallel = 1
  /\ verbosity = "Silent"
  /\ pc = "start"
  /\ commands = <<>>
  /\ selected = {}
  /\ files = <<>>
  /\ buffer = <<>>
  /\ inflight = {}
  /\ started = <<>>
  /\ results = <<>>
  /\ log = <<>>
  /\ exitCalls = <<>>
  /\ env \in [STASH_PULL_REQUEST_BRANCH_DESTINATION : EnvValues, CHANGE_TARGET : EnvValues]
  /\ ended = <<>>

\* The strategy is subscribed: its two commands are started, the first
\* against targetBranch().
BranchNext == runProcessForEachFile

BranchSpec == BranchInit /\ [][BranchNext]_vars

(***************************************************************************)
(* The messages on their own                                               *)
(***************************************************************************)

\* Largest number of results given to the message functions on their own.
MaxResults == 2

\* a.j, c.t
MessageFiles == {<<"a", ".", "j">>, <<"c", ".", "t">>}

\* Exit codes 0, 1 and 2 with no output, a line, an empty line, two lines.
MessageOutcomes ==
  {[code |-> c, stdout |-> s] :
     c \in {0, 1, 2},
     s \in {<<>>, <<"a", "\n">>, <<"\n">>, <<"a", "\n", "b", "\n">>}}

\* The results execProcess makes of them.
MessageResults == {execProcess(f, execP(o)).value : f \in MessageFiles, o \in MessageOutcomes}

MessageInit ==
  /\ strategy = "AllInPwd"
  /\ wl = {}
  /\ bl = {}
  /\ maxParallel = 1
  /\ verbosity \in Verbosity
  /\ pc = "message"
  /\ commands = <<>>
  /\ selected = {}
  /\ files = <<>>
  /\ buffer = <<>>
  /\ inflight = {}
  /\ started = <<>>
  /\ results \in UNION {[1..k -> MessageResults] : k \in 0..MaxResults}
  /\ log = <<>>
  /\ exitCalls = <<>>
  /\ env = NoEnv
  /\ ended = <<>>

\* messageForOneFile of each result.
MessageForOneFile ==
  /\ pc = "message"
  /\ log' = [i \in 1..Len(results) |->
              messageForOneFile(results[i].filename, results[i].stdout, results[i].code, verbosity)]
  /\ pc' = "lines"
  /\ UNCHANGED <<config, commands, selected, files, pool, exitCalls>>

\* messageForSummary of the results.
MessageForSummary ==
  /\ pc = "message"
  /\ log' = <<messageForSummary(results, verbosity)>>
  /\ pc' = "summary"
  /\ UNCHANGED <<config, commands, selected, files, pool, exitCalls>>

MessageNext == MessageForOneFile \/ MessageForSummary

MessageSpec == MessageInit /\ [][MessageNext]_vars

(***************************************************************************)
(* Properties                                                              *)
(***************************************************************************)

filenames(a) == [i \in 1..Len(a) |-> a[i].filename]

\* The files whose subprocess has been started and has not completed.
InFlight == {f \in Range(started) : \A i \in 1..Len(results) : results[i].filename # f}

\* The selection has been emitted and filtered.
Selected == pc \in {"running", "exited"}

\* C1: at any time the number of subprocesses started and not yet completed
\* is at most maxParallel.
C1_AtMostMaxParallelInFlight ==
  /\ Cardinality(InFlight) <= maxParallel
  /\ Cardinality(inflight) <= maxParallel

C1_Witness ==
  /\ pc = "running"
  /\ maxParallel = 2
  /\ Cardinality(InFlight) = 2
  /\ buffer # <<>>

\* C2: when a run over a non-empty filtered set completes, every filtered
\* file is the filename of exactly one result and no result has another
\* filename.
C2_OneResultPerFile ==
  (pc = "exited" /\ files # <<>>) =>
    /\ \A f \in Range(files) : Cardinality({i \in 1..Len(results) : results[i].filename = f}) = 1
    /\ \A i \in 1..Len(results) : results[i].filename \in Range(files)
    /\ Len(results) = Len(files)

C2_Witness ==
  /\ pc = "exited"
  /\ Len(files) = 3
  /\ {results[i].code : i \in 1..Len(results)} = {0, 1, 127}
  /\ filenames(results) # files

\* C3: a completed run exits with 1 exactly when a collected result has a
\* code other than 0, and with 0 otherwise; no other status is passed to
\* process.exit.
C3_ExitStatus ==
  /\ \A i \in 1..Len(exitCalls) : exitCalls[i] \in {0, 1}
  /\ pc = "exited" =>
       /\ Len(exitCalls) = 1
       /\ exitCalls[1] = 1 <=> \E i \in 1..Len(results) : results[i].code # 0
       /\ exitCalls[1] = 0 <=> \A i \in 1..Len(results) : results[i].code = 0

C3_Witness ==
  /\ pc = "exited"
  /\ exitCalls = <<1>>
  /\ Len(results) = 3
  /\ Cardinality({i \in 1..Len(results) : results[i].code # 0}) = 1
  /\ \E i \in 1..Len(results) : results[i].code = 127

Failed(r) == r.code # 0

\* Every filtered file is queued, in flight or has its result, and only one
\* of these.
Partitioned ==
  /\ Range(files) = Range(buffer) \cup inflight \cup Range(filenames(results))
  /\ Len(files) = Len(buffer) + Cardinality(inflight) + Len(results)

\* C4: the failure of a file's command is collected as a result like any
\* other and the stream goes on: in the step where it is collected the head
\* of the queue is started, the other subprocesses stay in flight, and the
\* exit is issued only with a result for every file; once a failure has been
\* collected the run is never in an error state and no file is lost; and,
\* subprocesses ending at some time, every file then gets its result.
C4_FailureStopsNothing ==
  /\ [][\A f \in inflight, o \in ProcessOutcomes :
          (o.code # 0 /\ ProcessDone(f, o)) =>
            /\ pc' \in {"running", "exited"}
            /\ results' = Append(results, [filename |-> f, code |-> o.code, stdout |-> trim(o.stdout)])
            /\ buffer # <<>> => (buffer' = Tail(buffer) /\ Head(buffer) \in inflight' /\ pc' = "running")
            /\ inflight \ {f} \subseteq inflight'
            /\ pc' = "exited" => Range(filenames(results')) = Range(files)]_vars
  /\ []((\E i \in 1..Len(results) : Failed(results[i])) =>
          /\ Selected
          /\ Partitioned
          /\ pc = "running" => inflight # {})
  /\ (\E i \in 1..Len(results) : Failed(results[i]))
       ~> (pc = "exited" /\ Range(filenames(results)) = Range(files))

C4_Witness ==
  /\ pc = "exited"
  /\ maxParallel = 2
  /\ Len(files) = 3
  /\ Len(results) = 3
  /\ results[1].code = 127
  /\ results[1].filename = files[2]
  /\ results[2].code = 1
  /\ results[3].code = 0

\* C5: with an empty filtered set no subprocess is started, nothing but
\* "No file to process" is logged (it is, unless the logger is silent) and
\* the run exits with 0.
C5_NothingToRun ==
  (pc \in {"running", "exited", "crashed"} /\ commands # <<>>
     /\ (\A i \in 1..Len(commands) : commands[i].status = "ok") /\ files = <<>>) =>
    /\ started = <<>>
    /\ inflight = {}
    /\ results = <<>>
    /\ \A i \in 1..Len(log) : log[i].kind = "nofile"
    /\ verbosity # "Silent" => log = <<messageForNoFile>>
    /\ pc = "exited"
    /\ exitCalls = <<0>>

C5_Witness ==
  /\ pc = "exited"
  /\ files = <<>>
  /\ selected # {}
  /\ log = <<messageForNoFile>>
  /\ exitCalls = <<0>>

GitStrategies == {"IndexedInGit", "StagedInGit", "ModifiedSinceOriginMasterInGit"}

\* All the commands of the strategy have succeeded.
SelectionSucceeded ==
  commands # <<>> /\ \A i \in 1..Len(commands) : commands[i].status = "ok"

\* C7: with a git strategy whose commands print nothing, the selected set
\* is empty, the empty string is not a file of it, no subprocess is started
\* and the run ends as a run with no file.
C7_EmptyOutputSelectsNothing ==
  (strategy \in GitStrategies /\ SelectionSucceeded
     /\ \A i \in 1..Len(commands) : commands[i].stdout = <<>>) =>
    /\ selected = {}
    /\ <<>> \notin selected
    /\ files = <<>>
    /\ started = <<>>
    /\ pc = "exited"
    /\ exitCalls = <<0>>

\* The file names of a trimmed, newline-separated list.
names(a) == IF a = <<>> THEN {} ELSE Range(split(a))

\* C8: with the strategy of the files modified since the target branch, the
\* selected set is the union of the file names of the two outputs: every
\* file name of either is in it and nothing else is (stated for two outputs
\* that each name a file).
C8_UnionOfBothOutputs ==
  (strategy = "ModifiedSinceOriginMasterInGit" /\ SelectionSucceeded
     /\ commands[1].stdout # <<>> /\ commands[2].stdout # <<>>) =>
    /\ names(commands[1].stdout) \subseteq selected
    /\ names(commands[2].stdout) \subseteq selected
    /\ selected \subseteq names(commands[1].stdout) \cup names(commands[2].stdout)

Ascending(s) == \A i, j \in 1..Len(s) : i < j => LexLess(s[i], s[j])

\* The filenames of the per-file lines of the log, in order.
loggedFiles == filenames(SelectSeq(log, LAMBDA m : m.kind = "file"))

\* C9: with maxParallel = 1 the results, and the per-file lines written, are
\* those of the filtered files in ascending order, at any time those of the
\* first files and at the end those of all.
C9_SequentialInSortedOrder ==
  (maxParallel = 1 /\ Selected) =>
    /\ Ascending(files)
    /\ Range(files) = blacklisted(whitelisted(selected, wl), bl)
    /\ filenames(results) = SubSeq(files, 1, Len(results))
    /\ verbosity # "Silent" => loggedFiles = filenames(results)
    /\ pc = "exited" => filenames(results) = files

C9_Witness ==
  /\ maxParallel = 1
  /\ pc = "exited"
  /\ Len(files) = 3
  /\ filenames(results) = files
  /\ loggedFiles = files
  /\ results[1].code = 1
  /\ results[2].code = 0

\* C10: when a git command of the strategy fails, no subprocess is started,
\* nothing is logged, the run does not end as a run with no file and no
\* exit with 0 is issued.
C10_SelectionFailureAborts ==
  (strategy \in GitStrategies /\ \E i \in 1..Len(commands) : commands[i].status = "failed") =>
    /\ pc = "crashed"
    /\ started = <<>>
    /\ inflight = {}
    /\ results = <<>>
    /\ log = <<>>
    /\ exitCalls = <<>>

C10_Witness ==
  /\ strategy = "ModifiedSinceOriginMasterInGit"
  /\ verbosity = "LogEverything"
  /\ Len(commands) = 2
  /\ commands[1].status = "ok"
  /\ commands[1].stdout # <<>>
  /\ commands[2].status = "failed"
  /\ pc = "crashed"

\* C11: the message of a failed result has the failure mark, the file
\* name, the exit code and the whole output, at every verbosity; that of a
\* successful result has the success mark and the file name, no exit code,
\* and the output only when everything is logged.
C11_MessageForOneFile ==
  pc = "lines" =>
    /\ Len(log) = Len(results)
    /\ \A i \in 1..Len(results) :
         /\ log[i].kind = "file"
         /\ log[i].filename = results[i].filename
         /\ results[i].code # 0 =>
              /\ ~log[i].success
              /\ log[i].exitCode = <<results[i].code>>
              /\ log[i].stdOut = results[i].stdout
         /\ results[i].code = 0 =>
              /\ log[i].success
              /\ log[i].exitCode = <<>>
              /\ log[i].stdOut = IF verbosity = "LogEverything" THEN results[i].stdout ELSE <<>>

C11_Witness ==
  /\ pc = "lines"
  /\ verbosity = "LogErrors"
  /\ Len(results) = 2
  /\ results[1].code = 2
  /\ results[1].stdout # <<>>
  /\ log[1].stdOut = results[1].stdout
  /\ results[2].code = 0
  /\ results[2].stdout # <<>>
  /\ log[2].stdOut = <<>>

\* The places of the failed results, and the place of the j-th of them.
failedAt(a) == {i \in 1..Len(a) : a[i].code # 0}
nthFailed(a, j) == CHOOSE i \in failedAt(a) : Cardinality({h \in failedAt(a) : h <= i}) = j

\* C13: the summary of n results of which k failed reads n/n succeeded with
\* no detail when k = 0, and k/n failed with k details otherwise: one for
\* each failed result, in their order, with its exit code and output, none
\* for a result that succeeded, at every verbosity.
C13_MessageForSummary ==
  pc = "summary" =>
    LET m == log[1]
        n == Len(results)
        k == Cardinality(failedAt(results))
    IN /\ Len(log) = 1
       /\ m.kind = "summary"
       /\ m.total = n
       /\ k = 0 => (m.success /\ m.count = n /\ m.lines = <<>>)
       /\ k > 0 =>
            /\ ~m.success
            /\ m.count = k
            /\ Len(m.lines) = k
            /\ \A j \in 1..k :
                 LET r == results[nthFailed(results, j)]
                 IN /\ m.lines[j].kind = "file"
                    /\ ~m.lines[j].success
                    /\ m.lines[j].filename = r.filename
                    /\ m.lines[j].exitCode = <<r.code>>
                    /\ m.lines[j].stdOut = r.stdout

C13_Witness ==
  /\ pc = "summary"
  /\ verbosity = "LogErrors"
  /\ Len(results) = 2
  /\ results[1].code = 0
  /\ results[2].code = 1
  /\ results[2].stdout # <<>>
  /\ log[1].count = 1
  /\ log[1].total = 2
  /\ Len(log[1].lines) = 1

\* The per-file lines of the log, in order.
fileLines == SelectSeq(log, LAMBDA m : m.kind = "file")

\* The result is one whose output is shown.
Shown(r) == r.code # 0 \/ verbosity = "LogEverything"

\* C12 as stated: in a run that is not silent the per-file lines are those
\* of the results that failed, or of all when everything is logged; a file
\* that succeeded has no line when only errors are logged.
C12_LineOnlyWhenShown ==
  (verbosity # "Silent" /\ Selected) =>
    loggedFiles = filenames(SelectSeq(results, Shown))

\* C12 amended: in a run that is not silent every result has its per-file
\* line, in the order of the results; the line has the output exactly when
\* there is some and the result failed or everything is logged; when only
\* errors are logged the line of a file that succeeded is the success mark
\* and the file name alone.
C12_LineForEveryResult ==
  (verbosity # "Silent" /\ Selected) =>
    /\ Len(fileLines) = Len(results)
    /\ \A i \in 1..Len(results) :
         /\ fileLines[i].filename = results[i].filename
         /\ fileLines[i].success <=> results[i].code = 0
         /\ fileLines[i].stdOut # <<>> <=> (results[i].stdout # <<>> /\ Shown(results[i]))
         /\ (verbosity = "LogErrors" /\ results[i].code = 0) =>
              (fileLines[i].stdOut = <<>> /\ fileLines[i].exitCode = <<>>)

C12_Witness ==
  /\ verbosity = "LogErrors"
  /\ pc = "exited"
  /\ Len(results) = 2
  /\ results[1].code = 0
  /\ results[1].stdout # <<>>
  /\ results[2].code = 1
  /\ Len(fileLines) = 2
  /\ fileLines[1].success
  /\ fileLines[1].stdOut = <<>>
  /\ fileLines[2].exitCode = <<1>>

\* What the subprocesses that ended leave in the accumulator.
collected == [i \in 1..Len(ended) |->
               [filename |-> ended[i].filename, code |-> ended[i].code,
                stdout |-> trim(ended[i].stdout)]]

\* C14: under Silent nothing is written, no header, no per-file line, no
\* summary and no 'No file to process'; the subprocesses started, the
\* results collected, the end of the run and the exit status are what the
\* files, maxParallel and the subprocesses that ended make them, whatever
\* the verbosity, hence the same as under LogErrors or LogEverything.
C14_SilentWritesNothing ==
  /\ verbosity = "Silent" => log = <<>>
  /\ Selected =>
       /\ started = SubSeq(files, 1, Min(Len(files), maxParallel + Len(ended)))
       /\ results = collected
       /\ pc = "exited" <=> Len(ended) = Len(files)
       /\ exitCalls = IF pc = "exited" THEN <<exitStatus(collected)>> ELSE <<>>

C14_Witness ==
  /\ verbosity = "Silent"
  /\ pc = "exited"
  /\ maxParallel = 2
  /\ Len(files) = 3
  /\ started = files
  /\ Len(results) = 3
  /\ \E i \in 1..3 : results[i].code # 0 /\ results[i].stdout # <<>>
  /\ filenames(results) # files
  /\ log = <<>>
  /\ exitCalls = <<1>>

\* The summary is the last message written, or the logger is disabled.
SummaryLogged ==
  verbosity # "Silent" => (log # <<>> /\ log[Len(log)].kind = "summary")

\* C15: when every subprocess that was started ends at some time, a run
\* on a non-empty filtered file set leads to every filtered file having
\* been started, the summary logged (by an enabled logger) and the process
\* exited; and never do files wait in the buffer with nothing in flight
\* in a run that has not ended.
C15_EveryFileAttempted ==
  /\ (pc = "running" /\ files # <<>>) ~>
       (/\ pc = "exited"
        /\ Range(started) = Range(files)
        /\ Len(results) = Len(files)
        /\ SummaryLogged
        /\ Len(exitCalls) = 1)
  /\ []((buffer # <<>> /\ inflight = {}) => pc \in {"exited", "crashed"})
  /\ [](pc = "running" => inflight # {})

C15_Witness ==
  /\ pc = "exited"
  /\ maxParallel = 1
  /\ Len(files) = 3
  /\ Range(started) = Range(files)
  /\ verbosity = "LogErrors"
  /\ SummaryLogged
  /\ exitCalls = <<0>>

Occurrences(s, x) == Cardinality({i \in 1..Len(s) : s[i] = x})

\* C17: a subprocess is started at most once for a file, also when it
\* failed; the file has at most one result, and once its subprocess has
\* ended an enabled logger has written exactly one per-file line for it.
C17_StartedAtMostOnce ==
  /\ Range(started) \subseteq Range(files)
  /\ \A f \in Range(files) :
       /\ Occurrences(started, f) <= 1
       /\ Occurrences(filenames(ended), f) <= 1
       /\ Occurrences(filenames(results), f) = Occurrences(filenames(ended), f)
       /\ (verbosity # "Silent" /\ Selected) =>
            Occurrences(loggedFiles, f) = Occurrences(filenames(ended), f)
       /\ (verbosity # "Silent" /\ pc = "exited") => Occurrences(loggedFiles, f) = 1

C17_Witness ==
  /\ pc = "exited"
  /\ verbosity = "LogErrors"
  /\ maxParallel = 2
  /\ Len(files) = 3
  /\ results[1].code # 0
  /\ results[1].filename = files[2]
  /\ \A f \in Range(files) : Occurrences(started, f) = 1 /\ Occurrences(loggedFiles, f) = 1

\* C20: while the run goes on, the subprocesses in flight are as many as
\* maxParallel, or as the files whose subprocess has not ended when these
\* are fewer; no file waits in the buffer with fewer than maxParallel in
\* flight.
C20_WorkConserving ==
  /\ pc = "running" =>
       Cardinality(inflight) = Min(maxParallel, Len(files) - Len(ended))
  /\ buffer # <<>> => Cardinality(inflight) = maxParallel

C20_Witness ==
  /\ pc = "running"
  /\ maxParallel = 2
  /\ Len(files) = 3
  /\ Len(ended) = 1
  /\ buffer = <<>>
  /\ Cardinality(inflight) = 2
  /\ started = files

\* C19: a strategy that is none of the four makes the call fail before any
\* command of a strategy or subprocess is started and before anything is
\* written; process.exit is not called, with 0 or otherwise.
C19_UnrecognizedStrategyFails ==
  strategy \notin Files =>
    /\ pc \in {"start", "crashed"}
    /\ commands = <<>>
    /\ started = <<>>
    /\ ended = <<>>
    /\ log = <<>>
    /\ exitCalls = <<>>

C19_Witness ==
  /\ strategy \notin Files
  /\ pc = "crashed"
  /\ commands = <<>>
  /\ exitCalls = <<>>

stash == env.STASH_PULL_REQUEST_BRANCH_DESTINATION

change == env.CHANGE_TARGET

\* C18: the branch the first diff is taken against is 'stash/' and the
\* value of STASH_PULL_REQUEST_BRANCH_DESTINATION when that is set and not
\* empty, whatever CHANGE_TARGET is; otherwise 'upstream/' and the value of
\* CHANGE_TARGET when that is set and not empty; otherwise 'origin/master'.
C18_TargetBranchPriority ==
  (pc = "selecting" /\ strategy = "ModifiedSinceOriginMasterInGit") =>
    /\ Len(commands) = 2
    /\ (stash.set /\ stash.value # <<>>) =>
         commands[1].ref = <<"s", "t", "a", "s", "h", "/">> \o stash.value
    /\ (~(stash.set /\ stash.value # <<>>) /\ change.set /\ change.value # <<>>) =>
         commands[1].ref = <<"u", "p", "s", "t", "r", "e", "a", "m", "/">> \o change.value
    /\ (~(stash.set /\ stash.value # <<>>) /\ ~(change.set /\ change.value # <<>>)) =>
         commands[1].ref = <<"o", "r", "i", "g", "i", "n", "/", "m", "a", "s", "t", "e", "r">>

C18_Witness ==
  /\ pc = "selecting"
  /\ stash = SetTo(<<"m">>)
  /\ change = SetTo(<<"m", "/">>)
  /\ Len(commands) = 2
  /\ commands[1].ref = <<"s", "t", "a", "s", "h", "/", "m">>

\* The summaries written.
summaries == SelectSeq(log, LAMBDA m : m.kind = "summary")

\* C21: process.exit is called at most once; when it has been called no
\* subprocess is in flight or waits in the buffer and every filtered file
\* has been started and has its result; an enabled logger writes the
\* summary once, only in the step that exits, as its last message, after
\* the per-file line of every filtered file, and has written it when a run
\* on files has exited.
C21_JoinBarrier ==
  /\ Len(exitCalls) <= 1
  /\ exitCalls # <<>> <=> pc = "exited"
  /\ pc = "exited" =>
       /\ inflight = {}
       /\ buffer = <<>>
       /\ Range(started) = Range(files)
       /\ Len(results) = Len(files)
       /\ Range(filenames(results)) = Range(files)
  /\ verbosity # "Silent" =>
       /\ Len(summaries) <= 1
       /\ summaries # <<>> =>
            /\ pc = "exited"
            /\ log[Len(log)].kind = "summary"
            /\ Range(loggedFiles) = Range(files)
            /\ Len(loggedFiles) = Len(files)
            /\ summaries[1].total = Len(files)
       /\ (pc = "exited" /\ files # <<>>) => summaries # <<>>

C21_Witness ==
  /\ pc = "exited"
  /\ verbosity = "LogEverything"
  /\ maxParallel = 2
  /\ Len(files) = 3
  /\ Len(log) = 5
  /\ log[4].kind = "file"
  /\ log[5].kind = "summary"
  /\ log[5].count = 1
  /\ exitCalls = <<1>>
  /\ inflight = {}

\* x ends before y.
EndsBefore(x, y) ==
  \E i, j \in 1..Len(ended) : i < j /\ ended[i].filename = x /\ ended[j].filename = y

\* x is before y in the sequence s.
Before(s, x, y) == \E i, j \in 1..Len(s) : i < j /\ s[i] = x /\ s[j] = y

\* The files of the detail entries of the summary, in order.
summaryFiles == IF summaries = <<>> THEN <<>> ELSE filenames(summaries[1].lines)

\* C22: of two files whose subprocesses ended one before the other, the
\* first has its result before the other's in the list, its per-file line
\* before the other's in what an enabled logger wrote and, both having
\* failed, its entry before the other's in the summary; the list, the lines
\* and the entries are those of the subprocesses that ended, in the order
\* they ended.
C22_CompletionOrder ==
  Selected =>
    /\ \A x, y \in Range(files) :
         EndsBefore(x, y) =>
           /\ Before(filenames(results), x, y)
           /\ verbosity # "Silent" => Before(loggedFiles, x, y)
           /\ (/\ verbosity # "Silent"
               /\ pc = "exited"
               /\ \E r \in Range(results) : r.filename = x /\ r.code # 0
               /\ \E r \in Range(results) : r.filename = y /\ r.code # 0) =>
                Before(summaryFiles, x, y)
    /\ filenames(results) = filenames(ended)
    /\ verbosity # "Silent" => loggedFiles = filenames(ended)
    /\ (verbosity # "Silent" /\ pc = "exited") =>
         summaryFiles = filenames(SelectSeq(ended, LAMBDA e : e.code # 0))

C22_Witness ==
  /\ pc = "exited"
  /\ verbosity = "LogErrors"
  /\ maxParallel = 3
  /\ Len(files) = 3
  /\ filenames(ended) = <<files[3], files[1], files[2]>>
  /\ ended[1].code # 0
  /\ ended[2].code = 0
  /\ ended[3].code # 0
  /\ loggedFiles = <<files[3], files[1], files[2]>>
  /\ summaryFiles = <<files[3], files[2]>>

\* C23: the filtered files are in ascending order and are started in that
\* order: the files started are the first ones of the filtered files, a
\* file that sorts before a started one was started before it, and before
\* any subprocess has ended the files started are the first maxParallel,
\* or all when they are fewer, the others waiting in their order.
C23_DispatchInSortedOrder ==
  Selected =>
    /\ Ascending(files)
    /\ \E k \in 0..Len(files) : started = SubSeq(files, 1, k)
    /\ started \o buffer = files
    /\ \A x, y \in Range(files) :
         (LexLess(x, y) /\ y \in Range(started)) => Before(started, x, y)
    /\ Len(started) >= Min(maxParallel, Len(files))
    /\ ended = <<>> => started = SubSeq(files, 1, Min(maxParallel, Len(files)))

C23_Witness ==
  /\ pc = "running"
  /\ ended = <<>>
  /\ maxParallel = 2
  /\ Len(files) = 3
  /\ LexLess(files[1], files[2])
  /\ LexLess(files[2], files[3])
  /\ started = <<files[1], files[2]>>
  /\ buffer = <<files[3]>>

====
